---- MODULE Spec2Model ----
(***************************************************************************)
(* Model of the three annotation tools of isbt-helpers                     *)
(*   annotate_exons.py   (exon/intron from VariantValidator)               *)
(*   annotate_gnomad.py  (gnomAD population MAFs)                          *)
(*   annotate_rsid.py    (rsID from the NCBI Variation service)            *)
(*                                                                         *)
(* A state holds two runs of one tool over the same variant list, the same *)
(* flags and the same external responses: one with test_mode = TRUE (dry)  *)
(* and one with test_mode = FALSE (live).  Everything that is indexed by a *)
(* mode belongs to the run of that mode.                                   *)
(***************************************************************************)
EXTENDS Integers, Sequences, FiniteSets, TLC

VARIABLES tool, entry, args, pc, params, n, idx, cnt, calls, patches, failed, last,
          retry

vars == <<tool, entry, args, pc, params, n, idx, cnt, calls, patches, failed, last, retry>>

---------------------------------------------------------------------------
(* Bounds of the model                                                     *)

\* number of variants a run iterates over at most (len(variants))
MaxVariants == 2

\* largest allele number (an) / allele count (ac) of a gnomAD population entry
MaxAN == 4

\* largest `retries` a function is wrapped with by retry_with_backoff
MaxRetries == 3

---------------------------------------------------------------------------
(* Python values.  A value is a tuple whose first element is its type.     *)

PyNone == <<"none">>
NaN == <<"nan">>
PyStr(s) == <<"str", s>>
PyInt(i) == <<"int", i>>
\* the float num/den, kept exact
Frac(num, den) == <<"float", num, den>>
\* a string given by the sequence of its characters
Chars(cs) == <<"chars", cs>>
\* the string made of k copies of the character c (an allele such as "A" * 1200)
Rep(c, k) == <<"rep", c, k>>

\* pd.isna(v) / pd.notna(v) on a scalar
isna(v) == v[1] \in {"none", "nan"}
notna(v) == ~isna(v)

\* bool(v): None, 0, 0.0 and "" are falsy; float('nan') is truthy
truthy(v) ==
    CASE v[1] = "none" -> FALSE
      [] v[1] = "nan" -> TRUE
      [] v[1] = "str" -> v[2] # ""
      [] v[1] = "chars" -> v[2] # <<>>
      [] v[1] = "int" -> v[2] # 0
      [] v[1] = "float" -> v[2] # 0
      [] v[1] = "rep" -> v[3] # 0

\* len(str(v)) of an allele
strlen(v) == IF v[1] = "rep" THEN v[3] ELSE 3

Modes == {"dry", "live"}
test_mode(m) == m = "dry"

Tools == {"exons", "gnomad", "rsid"}

---------------------------------------------------------------------------
(* The outcome of one pass through a loop body: the counter increments,    *)
(* the external queries issued, the PATCH requests sent, whether the       *)
(* pacing sleep at the bottom of the loop body was reached, and the        *)
(* exception (if any) that left the loop body uncaught.                    *)

Outcome(upd, skp, nf, clr, query, patch, sleep, crash, norm) ==
    [upd |-> upd, skp |-> skp, nf |-> nf, clr |-> clr, query |-> query,
     patch |-> patch, sleep |-> sleep, crash |-> crash, norm |-> norm]

\* session.patch(update_url, json=data): one PATCH /variant/{id}
Patch(kind, id, data, ok) == [kind |-> kind, id |-> id, data |-> data, ok |-> ok]

NoNorm == [none |-> TRUE]

\* a skip counted with the lookups that found nothing: `not_found_count += 1; continue`
Skipped_as_not_found == Outcome(0, 0, 1, 0, 0, <<>>, FALSE, "", NoNorm)

\* `skipped_count += 1; continue`
Skipped == Outcome(0, 1, 0, 0, 0, <<>>, FALSE, "", NoNorm)

---------------------------------------------------------------------------
(* Strings that the code takes apart are sequences of characters.          *)

Digits == <<"0", "1", "2", "3", "4", "5", "6", "7", "8", "9">>

\* the value of the digit character c, or -1 when c is no digit
DigitValue(c) ==
    IF \E d \in 1..10 : Digits[d] = c THEN (CHOOSE d \in 1..10 : Digits[d] = c) - 1 ELSE -1

\* s.startswith(prefix)
startswith(s, prefix) ==
    Len(s) >= Len(prefix) /\ SubSeq(s, 1, Len(prefix)) = prefix

RECURSIVE split(_, _)
\* s.split(sep) for a one-character separator: the list of the parts
split(s, sep) ==
    IF \A i \in 1..Len(s) : s[i] # sep
    THEN <<s>>
    ELSE LET i == CHOOSE j \in 1..Len(s) : s[j] = sep /\ \A k \in 1..(j - 1) : s[k] # sep
         IN <<SubSeq(s, 1, i - 1)>> \o split(SubSeq(s, i + 1, Len(s)), sep)

\* whether int(s) parses (otherwise it raises ValueError)
int_parses(s) == Len(s) > 0 /\ \A i \in 1..Len(s) : DigitValue(s[i]) >= 0

RECURSIVE int(_)
\* int(s) of a string of decimal digits
int(s) == IF Len(s) = 0 THEN 0 ELSE 10 * int(SubSeq(s, 1, Len(s) - 1)) + DigitValue(s[Len(s)])

\* str(v) of an int or a str
str(v) == IF v[1] = "int" THEN ToString(v[2]) ELSE v[2]

---------------------------------------------------------------------------
(* annotate_exons.py                                                       *)

\* clear_exons without its `if not test_mode:` guard: the PATCH is sent in a dry run too
clear_exons_unguarded(row, m, overwrite_all, clear_not_found, patch_ok) ==
    IF clear_not_found /\ overwrite_all /\ (truthy(row.exon) \/ truthy(row.intron))
    THEN [patch |-> <<Patch("clear", row.id, [f \in {"exon", "intron"} |-> PyNone], patch_ok)>>,
          clr |-> IF patch_ok THEN 1 ELSE 0,
          raised |-> ~patch_ok]
    ELSE [patch |-> <<>>, clr |-> 0, raised |-> FALSE]

\* `if clear_not_found and overwrite_all and (current_exon or current_intron):`
\* the clear block that follows every not-found branch of the exon tool
clear_exons(row, m, overwrite_all, clear_not_found, patch_ok) ==
    IF clear_not_found /\ overwrite_all /\ (truthy(row.exon) \/ truthy(row.intron))
    THEN IF ~test_mode(m)
         THEN LET clear_data == [f \in {"exon", "intron"} |-> PyNone]
              IN [patch |-> <<Patch("clear", row.id, clear_data, patch_ok)>>,
                  clr |-> IF patch_ok THEN 1 ELSE 0,
                  raised |-> ~patch_ok]
         ELSE [patch |-> <<>>, clr |-> 1, raised |-> FALSE]
    ELSE [patch |-> <<>>, clr |-> 0, raised |-> FALSE]

\* a not-found branch: `not_found_count += 1`, the clear block, `continue`
\* (a PATCH that raises leaves the branch through the except clauses instead)
not_found_exons(row, m, overwrite_all, clear_not_found, patch_ok, norm) ==
    LET c == clear_exons(row, m, overwrite_all, clear_not_found, patch_ok)
    IN Outcome(0, 0, 1, c.clr, 1, c.patch, c.raised, "", norm)

\* latest_positions passing over an entry that yields neither an exon nor an
\* intron value, so that a lower version with boundaries is used instead
RECURSIVE latest_positions_with_fallback(_, _, _)
latest_positions_with_fallback(positions, i, acc) ==
    IF i > Len(positions) THEN acc
    ELSE LET key == positions[i][1]
             pos_data == positions[i][2]
             parts == split(key, ".")
         IN IF startswith(key, <<"N", "C">>) /\ Len(parts) >= 2 /\ int_parses(parts[2])
               /\ int(parts[2]) > acc.latest_version
               /\ \/ truthy(pos_data.start_exon) /\ truthy(pos_data.end_exon)
                  \/ truthy(pos_data.start_intron) /\ truthy(pos_data.end_intron)
            THEN latest_positions_with_fallback(positions, i + 1,
                     [latest_version |-> int(parts[2]),
                      start_exon |-> pos_data.start_exon,
                      end_exon |-> pos_data.end_exon,
                      start_intron |-> pos_data.start_intron,
                      end_intron |-> pos_data.end_intron])
            ELSE latest_positions_with_fallback(positions, i + 1, acc)

\* latest_positions comparing `version >= latest_version`: of two keys with the
\* same version the later one is kept
RECURSIVE latest_positions_later_tie(_, _, _)
latest_positions_later_tie(positions, i, acc) ==
    IF i > Len(positions) THEN acc
    ELSE LET key == positions[i][1]
             pos_data == positions[i][2]
             parts == split(key, ".")
         IN IF startswith(key, <<"N", "C">>) /\ Len(parts) >= 2 /\ int_parses(parts[2])
               /\ int(parts[2]) >= acc.latest_version
            THEN latest_positions_later_tie(positions, i + 1,
                     [latest_version |-> int(parts[2]),
                      start_exon |-> pos_data.start_exon,
                      end_exon |-> pos_data.end_exon,
                      start_intron |-> pos_data.start_intron,
                      end_intron |-> pos_data.end_intron])
            ELSE latest_positions_later_tie(positions, i + 1, acc)

\* latest_positions without the comparison `version > latest_version`: the entry
\* of the NC_ key met last is kept
RECURSIVE latest_positions_last_key(_, _, _)
latest_positions_last_key(positions, i, acc) ==
    IF i > Len(positions) THEN acc
    ELSE LET key == positions[i][1]
             pos_data == positions[i][2]
             parts == split(key, ".")
         IN IF startswith(key, <<"N", "C">>) /\ Len(parts) >= 2 /\ int_parses(parts[2])
            THEN latest_positions_last_key(positions, i + 1,
                     [latest_version |-> int(parts[2]),
                      start_exon |-> pos_data.start_exon,
                      end_exon |-> pos_data.end_exon,
                      start_intron |-> pos_data.start_intron,
                      end_intron |-> pos_data.end_intron])
            ELSE latest_positions_last_key(positions, i + 1, acc)

\* the loop over variant_exonic_positions.keys(): the entry of the NC_ key
\* with the highest version seen so far is kept
RECURSIVE latest_positions(_, _, _)
latest_positions(positions, i, acc) ==
    IF i > Len(positions) THEN acc
    ELSE LET key == positions[i][1]
             pos_data == positions[i][2]
             parts == split(key, ".")
         IN IF startswith(key, <<"N", "C">>) /\ Len(parts) >= 2 /\ int_parses(parts[2])
               /\ int(parts[2]) > acc.latest_version
            THEN latest_positions(positions, i + 1,
                     [latest_version |-> int(parts[2]),
                      start_exon |-> pos_data.start_exon,
                      end_exon |-> pos_data.end_exon,
                      start_intron |-> pos_data.start_intron,
                      end_intron |-> pos_data.end_intron])
            ELSE latest_positions(positions, i + 1, acc)

\* format_range testing `if start is not None and end is not None:`
format_range_not_none(start, end) ==
    IF start # PyNone /\ end # PyNone
    THEN IF start = end THEN PyStr(str(start)) ELSE PyStr(str(start) \o "-" \o str(end))
    ELSE PyNone

\* `if start and end: str(start) if start == end else f"{start}-{end}"`
format_range(start, end) ==
    IF truthy(start) /\ truthy(end)
    THEN IF start = end THEN PyStr(str(start)) ELSE PyStr(str(start) \o "-" \o str(end))
    ELSE PyNone

\* update_exons with the `updated_count += 1` of the test-mode branch left out
update_exons_dry_uncounted(row, m, patch_ok, norm) ==
    IF ~test_mode(m)
    THEN LET new == [f \in {"exon", "intron"} |->
                        IF f = "exon" THEN norm.new_exon_value ELSE norm.new_intron_value]
             update_data == [f \in {g \in {"exon", "intron"} : truthy(new[g])} |-> new[f]]
         IN Outcome(IF patch_ok THEN 1 ELSE 0, 0, 0, 0, 1,
                    <<Patch("set", row.id, update_data, patch_ok)>>, TRUE, "", norm)
    ELSE Outcome(0, 0, 0, 0, 1, <<>>, TRUE, "", norm)

\* the found branch: the PATCH with the non-empty values, `updated_count += 1`
update_exons(row, m, patch_ok, norm) ==
    IF ~test_mode(m)
    THEN LET new == [f \in {"exon", "intron"} |->
                        IF f = "exon" THEN norm.new_exon_value ELSE norm.new_intron_value]
             update_data == [f \in {g \in {"exon", "intron"} : truthy(new[g])} |-> new[f]]
         IN Outcome(IF patch_ok THEN 1 ELSE 0, 0, 0, 0, 1,
                    <<Patch("set", row.id, update_data, patch_ok)>>, TRUE, "", norm)
    ELSE Outcome(1, 0, 0, 0, 1, <<>>, TRUE, "", norm)

\* the body of `for idx, row in variants.iterrows():` of annotate_exons_introns
annotate_exons_introns(row, resp, patch_ok, m, overwrite_all, clear_not_found) ==
    IF isna(row.hgvs_transcript) \/ ~truthy(row.hgvs_transcript) THEN Skipped
    ELSE IF ~overwrite_all /\ (   (~isna(row.exon) /\ truthy(row.exon))
                               \/ (~isna(row.intron) /\ truthy(row.intron))) THEN Skipped
    ELSE IF row.hgvs_transcript[1] # "str"
         \* hgvs_transcript.split raises: `not_found_count += 1; continue`
         THEN Outcome(0, 0, 1, 0, 0, <<>>, FALSE, "", NoNorm)
    ELSE IF resp.kind \in {"Timeout", "RequestException"}
         \* session.get raised: logged by the except clauses, then the sleep
         THEN Outcome(0, 0, 0, 0, 1, <<>>, TRUE, "", NoNorm)
    ELSE IF resp.kind = "Status"
         THEN not_found_exons(row, m, overwrite_all, clear_not_found, patch_ok, NoNorm)
    ELSE IF resp.kind = "NoKey"
         THEN not_found_exons(row, m, overwrite_all, clear_not_found, patch_ok, NoNorm)
    ELSE IF resp.positions = <<>>
         THEN not_found_exons(row, m, overwrite_all, clear_not_found, patch_ok, NoNorm)
    ELSE LET sel == latest_positions(resp.positions, 1,
                        [latest_version |-> 0, start_exon |-> PyNone, end_exon |-> PyNone,
                         start_intron |-> PyNone, end_intron |-> PyNone])
             norm == [start_exon |-> sel.start_exon, end_exon |-> sel.end_exon,
                      start_intron |-> sel.start_intron, end_intron |-> sel.end_intron,
                      latest_version |-> sel.latest_version,
                      new_exon_value |-> format_range(sel.start_exon, sel.end_exon),
                      new_intron_value |-> format_range(sel.start_intron, sel.end_intron)]
         IN IF ~truthy(norm.new_exon_value) /\ ~truthy(norm.new_intron_value)
            THEN not_found_exons(row, m, overwrite_all, clear_not_found, patch_ok, norm)
            ELSE update_exons(row, m, patch_ok, norm)

---------------------------------------------------------------------------
(* annotate_gnomad.py                                                      *)

\* `gnomad_populations`: the nine database fields of the gnomAD source
gnomad_populations ==
    <<"gnomad_all", "gnomad_afr", "gnomad_amr", "gnomad_asj", "gnomad_eas",
      "gnomad_fin", "gnomad_nfe", "gnomad_oth", "gnomad_sas">>

gnomad_fields == {gnomad_populations[i] : i \in 1..Len(gnomad_populations)}

\* the limit of a length test written `>= 1000`, that is `> 999`
max_allele_length_inclusive == 1000 - 1

\* `max_allele_length = 1000`
max_allele_length == 1000

\* calculate_maf(af): `af if af <= 0.5 else (1 - af)`, None for None
calculate_maf(af) ==
    IF af = PyNone THEN PyNone
    ELSE IF 2 * af[2] <= af[3] THEN af ELSE Frac(af[3] - af[2], af[3])

\* d.get(k) of a dict d (None when the key is missing)
dict_get(d, k) == IF k \in DOMAIN d THEN d[k] ELSE PyNone

\* population_maf testing `if ac and an and an > 0:` (truthiness, not `is not None`)
population_maf_truthy(ac, an) ==
    IF truthy(ac) /\ truthy(an) /\ an[2] > 0
    THEN calculate_maf(Frac(ac[2], an[2]))
    ELSE PyNone

\* the MAF of one population entry:
\* `if ac is not None and an is not None and an > 0: calculate_maf(ac / an) else None`
population_maf(ac, an) ==
    IF ac # PyNone /\ an # PyNone /\ an[2] > 0
    THEN calculate_maf(Frac(ac[2], an[2]))
    ELSE PyNone

\* `for pop in populations:` filling pop_mafs; pop['id'] raises KeyError
\* for an entry without an id and ends the loop with what was filled so far
RECURSIVE pop_mafs_loop(_, _, _)
pop_mafs_loop(populations, i, acc) ==
    IF i > Len(populations) THEN [pop_mafs |-> acc, raised |-> ""]
    ELSE LET pop == populations[i]
             ac == dict_get(pop, "ac")
             an == dict_get(pop, "an")
         IN IF "id" \notin DOMAIN pop THEN [pop_mafs |-> acc, raised |-> "KeyError"]
            ELSE pop_mafs_loop(populations, i + 1,
                     [k \in DOMAIN acc \cup {pop.id} |->
                         IF k = pop.id THEN population_maf(ac, an) ELSE acc[k]])

\* gnomad_freqs preferring the 'oth' entry: `oth_maf if oth_maf is not None else
\* pop_mafs.get('remaining')`
gnomad_freqs_oth_first(overall_maf, pop_mafs) ==
    LET oth_maf == dict_get(pop_mafs, "oth")
    IN [f \in gnomad_fields |->
           CASE f = "gnomad_all" -> overall_maf
             [] f = "gnomad_afr" -> dict_get(pop_mafs, "afr")
             [] f = "gnomad_amr" -> dict_get(pop_mafs, "amr")
             [] f = "gnomad_asj" -> dict_get(pop_mafs, "asj")
             [] f = "gnomad_eas" -> dict_get(pop_mafs, "eas")
             [] f = "gnomad_fin" -> dict_get(pop_mafs, "fin")
             [] f = "gnomad_nfe" -> dict_get(pop_mafs, "nfe")
             [] f = "gnomad_oth" -> IF oth_maf # PyNone THEN oth_maf
                                    ELSE dict_get(pop_mafs, "remaining")
             [] f = "gnomad_sas" -> dict_get(pop_mafs, "sas")]

\* the `gnomad_freqs` dict: the nine fields, 'remaining' standing for "other"
gnomad_freqs(overall_maf, pop_mafs) ==
    LET remaining_maf == dict_get(pop_mafs, "remaining")
    IN [f \in gnomad_fields |->
           CASE f = "gnomad_all" -> overall_maf
             [] f = "gnomad_afr" -> dict_get(pop_mafs, "afr")
             [] f = "gnomad_amr" -> dict_get(pop_mafs, "amr")
             [] f = "gnomad_asj" -> dict_get(pop_mafs, "asj")
             [] f = "gnomad_eas" -> dict_get(pop_mafs, "eas")
             [] f = "gnomad_fin" -> dict_get(pop_mafs, "fin")
             [] f = "gnomad_nfe" -> dict_get(pop_mafs, "nfe")
             [] f = "gnomad_oth" -> IF remaining_maf # PyNone THEN remaining_maf
                                    ELSE dict_get(pop_mafs, "oth")
             [] f = "gnomad_sas" -> dict_get(pop_mafs, "sas")]

\* `if clear_not_found and overwrite_all and pd.notna(row.get('gnomad_all')):`
\* the clear block that follows every not-found branch of the gnomAD tool
clear_gnomad(row, m, overwrite_all, clear_not_found, patch_ok) ==
    IF clear_not_found /\ overwrite_all /\ notna(row.gnomad_all)
    THEN IF ~test_mode(m)
         THEN LET clear_data == [f \in gnomad_fields |-> PyNone]
              IN [patch |-> <<Patch("clear", row.id, clear_data, patch_ok)>>,
                  clr |-> IF patch_ok THEN 1 ELSE 0,
                  raised |-> ~patch_ok]
         ELSE [patch |-> <<>>, clr |-> 1, raised |-> FALSE]
    ELSE [patch |-> <<>>, clr |-> 0, raised |-> FALSE]

\* not_found_gnomad without its `not_found_count += 1`
not_found_gnomad_uncounted(row, m, overwrite_all, clear_not_found, patch_ok) ==
    LET c == clear_gnomad(row, m, overwrite_all, clear_not_found, patch_ok)
    IN Outcome(0, 0, 0, c.clr, 1, c.patch, c.raised, "", NoNorm)

\* a not-found branch: `not_found_count += 1`, the clear block, `continue`
not_found_gnomad(row, m, overwrite_all, clear_not_found, patch_ok) ==
    LET c == clear_gnomad(row, m, overwrite_all, clear_not_found, patch_ok)
    IN Outcome(0, 0, 1, c.clr, 1, c.patch, c.raised, "", NoNorm)

\* update_gnomad sending the eight population fields without gnomad_all
update_gnomad_populations_only(row, m, patch_ok, norm) ==
    IF ~test_mode(m)
    THEN Outcome(IF patch_ok THEN 1 ELSE 0, 0, 0, 0, 1,
                 <<Patch("set", row.id,
                         [f \in gnomad_fields \ {"gnomad_all"} |-> norm.gnomad_freqs[f]],
                         patch_ok)>>, TRUE, "", norm)
    ELSE Outcome(1, 0, 0, 0, 1, <<>>, TRUE, "", norm)

\* the found branch: the PATCH of gnomad_freqs, `updated_count += 1`
update_gnomad(row, m, patch_ok, norm) ==
    IF ~test_mode(m)
    THEN Outcome(IF patch_ok THEN 1 ELSE 0, 0, 0, 0, 1,
                 <<Patch("set", row.id, norm.gnomad_freqs, patch_ok)>>, TRUE, "", norm)
    ELSE Outcome(1, 0, 0, 0, 1, <<>>, TRUE, "", norm)

\* the body of `for index, row in variants.iterrows():` of annotate_gnomad_frequencies
annotate_gnomad_frequencies(row, resp, patch_ok, m, overwrite_all, clear_not_found) ==
    IF ~overwrite_all /\ notna(row.gnomad_all) THEN Skipped
    ELSE IF isna(row.grch38_chr) \/ isna(row.grch38_pos)
            \/ isna(row.grch38_ref) \/ isna(row.grch38_alt) THEN Skipped
    ELSE IF strlen(row.grch38_ref) > max_allele_length
            \/ strlen(row.grch38_alt) > max_allele_length THEN Skipped
    ELSE IF resp.kind \in {"Timeout", "RequestException"}
         \* requests.post or raise_for_status raised: logged, then the sleep
         THEN Outcome(0, 0, 0, 0, 1, <<>>, TRUE, "", NoNorm)
    ELSE IF resp.kind = "Errors"
         THEN not_found_gnomad(row, m, overwrite_all, clear_not_found, patch_ok)
    ELSE IF resp.kind = "NoVariant"
         THEN not_found_gnomad(row, m, overwrite_all, clear_not_found, patch_ok)
    ELSE IF resp.kind = "NoGenome"
         THEN not_found_gnomad(row, m, overwrite_all, clear_not_found, patch_ok)
    ELSE LET loop == pop_mafs_loop(resp.populations, 1, <<>>)
             overall_maf == calculate_maf(resp.af)
             norm == [pop_mafs |-> loop.pop_mafs, overall_maf |-> overall_maf,
                      gnomad_freqs |-> gnomad_freqs(overall_maf, loop.pop_mafs)]
         IN IF loop.raised # ""
            \* KeyError is caught by no except clause of the loop body
            THEN Outcome(0, 0, 0, 0, 1, <<>>, FALSE, loop.raised,
                         [pop_mafs |-> loop.pop_mafs])
            ELSE IF overall_maf = PyNone
            \* f"{overall_maf:.6f}" raises TypeError, caught by no except clause
            THEN Outcome(0, 0, 0, 0, 1, <<>>, FALSE, "TypeError", norm)
            ELSE update_gnomad(row, m, patch_ok, norm)

---------------------------------------------------------------------------
(* annotate_rsid.py                                                        *)

\* GRCH38_CHROMOSOMES: chromosome label -> RefSeq accession
GRCH38_CHROMOSOMES ==
    [c \in {"1", "2", "3", "4", "5", "6", "7", "8", "9", "10", "11", "12", "13",
            "14", "15", "16", "17", "18", "19", "20", "21", "22", "X", "Y", "MT", "M"} |->
        CASE c = "1" -> "NC_000001.11" [] c = "2" -> "NC_000002.12"
          [] c = "3" -> "NC_000003.12" [] c = "4" -> "NC_000004.12"
          [] c = "5" -> "NC_000005.10" [] c = "6" -> "NC_000006.12"
          [] c = "7" -> "NC_000007.14" [] c = "8" -> "NC_000008.11"
          [] c = "9" -> "NC_000009.12" [] c = "10" -> "NC_000010.11"
          [] c = "11" -> "NC_000011.10" [] c = "12" -> "NC_000012.12"
          [] c = "13" -> "NC_000013.11" [] c = "14" -> "NC_000014.9"
          [] c = "15" -> "NC_000015.10" [] c = "16" -> "NC_000016.10"
          [] c = "17" -> "NC_000017.11" [] c = "18" -> "NC_000018.10"
          [] c = "19" -> "NC_000019.10" [] c = "20" -> "NC_000020.11"
          [] c = "21" -> "NC_000021.9" [] c = "22" -> "NC_000022.11"
          [] c = "X" -> "NC_000023.11" [] c = "Y" -> "NC_000024.10"
          [] c = "MT" -> "NC_012920.1" [] c = "M" -> "NC_012920.1"]

RECURSIVE join(_)
\* the string whose characters are cs
join(cs) == IF cs = <<>> THEN "" ELSE cs[1] \o join(Tail(cs))

RECURSIVE replace(_, _)
\* s.replace(old, ''): every occurrence of old removed, left to right
replace(s, old) ==
    IF Len(s) = 0 THEN s
    ELSE IF startswith(s, old) THEN replace(SubSeq(s, Len(old) + 1, Len(s)), old)
    ELSE <<s[1]>> \o replace(Tail(s), old)

\* `str(chrom).replace('chr', '').replace('Chr', '').replace('CHR', '')`
chrom_normalized(chrom) ==
    replace(replace(replace(chrom[2], <<"c", "h", "r">>), <<"C", "h", "r">>),
            <<"C", "H", "R">>)

\* the allele length limit of the skip rule `len(str(ref)) > 50 or len(str(alt)) > 50`
max_rsid_allele_length == 50

\* get_rsid without the `if not chrom_accession: return None` test: a label that
\* is not in the table is sent as it is
get_rsid_unchecked_label(chromosome, position, ref, alt, resp) ==
    LET label == join(chromosome)
        chrom_accession == IF label \in DOMAIN GRCH38_CHROMOSOMES
                           THEN GRCH38_CHROMOSOMES[label] ELSE label
    IN IF position[1] # "int"
       THEN [rsid |-> PyNone, raised |-> "ValueError", query |-> 0, spdi |-> <<>>]
       ELSE LET spdi_position == position[2] - 1
                spdi == <<chrom_accession, spdi_position, ref, alt>>
            IN IF resp.kind \in {"Timeout", "RequestException"}
               THEN [rsid |-> PyNone, raised |-> "", query |-> 1, spdi |-> spdi]
               ELSE IF resp.rsids = <<>>
               THEN [rsid |-> PyNone, raised |-> "", query |-> 1, spdi |-> spdi]
               ELSE [rsid |-> PyInt(resp.rsids[1]), raised |-> "", query |-> 1,
                     spdi |-> spdi]

\* get_rsid sending the 1-based position: `spdi_position = int(position)`
get_rsid_one_based(chromosome, position, ref, alt, resp) ==
    LET label == join(chromosome)
    IN IF label \notin DOMAIN GRCH38_CHROMOSOMES
       THEN [rsid |-> PyNone, raised |-> "", query |-> 0, spdi |-> <<>>]
       ELSE IF position[1] # "int"
       THEN [rsid |-> PyNone, raised |-> "ValueError", query |-> 0, spdi |-> <<>>]
       ELSE LET spdi_position == position[2]
                spdi == <<GRCH38_CHROMOSOMES[label], spdi_position, ref, alt>>
            IN IF resp.kind \in {"Timeout", "RequestException"}
               THEN [rsid |-> PyNone, raised |-> "", query |-> 1, spdi |-> spdi]
               ELSE IF resp.rsids = <<>>
               THEN [rsid |-> PyNone, raised |-> "", query |-> 1, spdi |-> spdi]
               ELSE [rsid |-> PyInt(resp.rsids[1]), raised |-> "", query |-> 1,
                     spdi |-> spdi]

\* get_rsid(chromosome, position, ref, alt, session=session): the rsID, None
\* when there is none, or the exception that leaves it (only RequestException
\* is caught inside, and only RequestException is retried by the decorator)
get_rsid(chromosome, position, ref, alt, resp) ==
    LET label == join(chromosome)
    IN IF label \notin DOMAIN GRCH38_CHROMOSOMES
       THEN [rsid |-> PyNone, raised |-> "", query |-> 0, spdi |-> <<>>]
       ELSE IF position[1] # "int"
       \* int(position) raises ValueError
       THEN [rsid |-> PyNone, raised |-> "ValueError", query |-> 0, spdi |-> <<>>]
       ELSE LET spdi_position == position[2] - 1
                spdi == <<GRCH38_CHROMOSOMES[label], spdi_position, ref, alt>>
            IN IF resp.kind \in {"Timeout", "RequestException"}
               THEN [rsid |-> PyNone, raised |-> "", query |-> 1, spdi |-> spdi]
               ELSE IF resp.rsids = <<>>
               THEN [rsid |-> PyNone, raised |-> "", query |-> 1, spdi |-> spdi]
               ELSE [rsid |-> PyInt(resp.rsids[1]), raised |-> "", query |-> 1,
                     spdi |-> spdi]

\* `@retry_with_backoff(retries=5, backoff_factor=0.5)` on get_rsid
get_rsid_retries == 5
get_rsid_backoff_factor == Frac(1, 2)

\* a wait that grows linearly: `wait_time = backoff_factor * (attempt + 1)`
wait_time_linear(backoff_factor, attempt) ==
    Frac(backoff_factor[2] * (attempt + 1), backoff_factor[3])

\* `wait_time = backoff_factor * (2**attempt)`
wait_time(backoff_factor, attempt) ==
    Frac(backoff_factor[2] * 2^attempt, backoff_factor[3])

\* `for attempt in range(retries + 1):` of wrapper, from the given attempt on.
\* func[attempt + 1] is what the call of func in that attempt does: it returns
\* (raised = "") or raises.  Only RequestException is caught: the last attempt
\* re-raises it, an earlier one sleeps wait_time and goes round again.
RECURSIVE retry_attempts(_, _, _, _, _)
retry_attempts(func, retries, backoff_factor, attempt, waits) ==
    IF attempt > retries
    THEN [outcome |-> [raised |-> ""], invocations |-> attempt, waits |-> waits]
    ELSE LET outcome == func[attempt + 1]
         IN IF outcome.raised = "RequestException" /\ attempt # retries
            THEN retry_attempts(func, retries, backoff_factor, attempt + 1,
                                Append(waits, wait_time(backoff_factor, attempt)))
            ELSE [outcome |-> outcome, invocations |-> attempt + 1, waits |-> waits]

\* wrapper(*args, **kwargs) of retry_with_backoff(retries, backoff_factor)(func):
\* `session = kwargs.get("session")`, ValueError when it is None, else the loop
retry_with_backoff(session, func, retries, backoff_factor) ==
    IF session = PyNone
    THEN [outcome |-> [raised |-> "ValueError"], invocations |-> 0, waits |-> <<>>]
    ELSE retry_attempts(func, retries, backoff_factor, 0, <<>>)

\* `if clear_not_found and overwrite_all and current_rsid:` the clear block
clear_rsid(row, m, overwrite_all, clear_not_found, patch_ok) ==
    IF clear_not_found /\ overwrite_all /\ truthy(row.rsid)
    THEN IF ~test_mode(m)
         THEN LET update_data == [f \in {"rsid"} |-> PyNone]
              IN [patch |-> <<Patch("clear", row.id, update_data, patch_ok)>>,
                  clr |-> IF patch_ok THEN 1 ELSE 0,
                  raised |-> ~patch_ok]
         ELSE [patch |-> <<>>, clr |-> 1, raised |-> FALSE]
    ELSE [patch |-> <<>>, clr |-> 0, raised |-> FALSE]

\* the `if rsid is None:` branch: `not_found_count += 1`, the clear block, `continue`
not_found_rsid(row, m, overwrite_all, clear_not_found, patch_ok, query, norm) ==
    LET c == clear_rsid(row, m, overwrite_all, clear_not_found, patch_ok)
    IN Outcome(0, 0, 1, c.clr, query, c.patch, c.raised, "", norm)

\* update_rsid sending the whole variant record back with the rsID filled in
update_rsid_whole_record(row, m, patch_ok, norm) ==
    IF ~test_mode(m)
    THEN LET update_data == [f \in DOMAIN row |->
                                IF f = "rsid" THEN norm.rsid_formatted ELSE row[f]]
         IN Outcome(IF patch_ok THEN 1 ELSE 0, 0, 0, 0, 1,
                    <<Patch("set", row.id, update_data, patch_ok)>>, TRUE, "", norm)
    ELSE Outcome(1, 0, 0, 0, 1, <<>>, TRUE, "", norm)

\* the found branch: the PATCH of the formatted rsID, `updated_count += 1`
update_rsid(row, m, patch_ok, norm) ==
    IF ~test_mode(m)
    THEN LET update_data == [f \in {"rsid"} |-> norm.rsid_formatted]
         IN Outcome(IF patch_ok THEN 1 ELSE 0, 0, 0, 0, 1,
                    <<Patch("set", row.id, update_data, patch_ok)>>, TRUE, "", norm)
    ELSE Outcome(1, 0, 0, 0, 1, <<>>, TRUE, "", norm)

\* the body of `for idx, row in variants.iterrows():` of annotate_rsids
annotate_rsids(row, resp, patch_ok, m, overwrite_all, clear_not_found) ==
    IF isna(row.grch38_chr) \/ isna(row.grch38_pos)
       \/ isna(row.grch38_ref) \/ isna(row.grch38_alt) THEN Skipped
    ELSE IF ~overwrite_all /\ ~isna(row.rsid) /\ truthy(row.rsid) THEN Skipped
    ELSE IF strlen(row.grch38_ref) > max_rsid_allele_length
            \/ strlen(row.grch38_alt) > max_rsid_allele_length THEN Skipped
    ELSE IF row.grch38_ref = row.grch38_alt THEN Skipped
    ELSE LET chrom == chrom_normalized(row.grch38_chr)
             \* get_rsid is called through the wrapper; the response of the
             \* service is the same in every attempt of the iteration
             w == retry_with_backoff(PyStr("session"),
                      [k \in 1..(get_rsid_retries + 1) |->
                          get_rsid(chrom, row.grch38_pos, row.grch38_ref, row.grch38_alt,
                                   resp)],
                      get_rsid_retries, get_rsid_backoff_factor)
             r == w.outcome
             norm == [chrom_normalized |-> chrom, spdi |-> r.spdi, rsid |-> r.rsid,
                      invocations |-> w.invocations, waits |-> w.waits,
                      rsid_formatted |->
                          IF r.rsid = PyNone THEN PyNone
                          ELSE PyStr("rs" \o ToString(r.rsid[2]))]
         IN IF r.raised = "RequestException"
            \* re-raised by the wrapper: logged by the except clauses, then the sleep
            THEN Outcome(0, 0, 0, 0, r.query * w.invocations, <<>>, TRUE, "", norm)
            ELSE IF r.raised # ""
            \* ValueError is caught by no except clause of the loop body
            THEN Outcome(0, 0, 0, 0, r.query, <<>>, FALSE, r.raised, norm)
            ELSE IF r.rsid = PyNone
            THEN not_found_rsid(row, m, overwrite_all, clear_not_found, patch_ok,
                                r.query, norm)
            ELSE update_rsid(row, m, patch_ok, norm)

---------------------------------------------------------------------------
(* The inputs: variant records as the database returns them, and the       *)
(* responses of the external services.                                     *)

\* values a nullable text field of a variant record takes in the DataFrame:
\* None (JSON null), NaN (key missing), the empty string, a value
TextValues(v) == {PyNone, NaN, PyStr(""), PyStr(v)}

HGVS == PyStr("NM_1.2:c.10A>T")

ExonRows ==
    {[hgvs_transcript |-> h, exon |-> PyNone, intron |-> PyNone] :
        h \in {NaN, PyStr(""), PyInt(7)}}
    \cup {[hgvs_transcript |-> HGVS, exon |-> e, intron |-> i] :
            e \in TextValues("3"), i \in {NaN, PyStr("2")}}

\* a boundary of variant_exonic_positions: missing, 0, empty or a number
Boundaries == {PyNone, PyInt(0), PyStr(""), PyInt(5), PyInt(7)}

PosData(se, ee, si, ei) ==
    [start_exon |-> se, end_exon |-> ee, start_intron |-> si, end_intron |-> ei]

NC_1_9 == <<"N", "C", "_", "1", ".", "9">>
NC_1_10 == <<"N", "C", "_", "1", ".", "1", "0">>
NC_1_11 == <<"N", "C", "_", "1", ".", "1", "1">>
NC_2_11 == <<"N", "C", "_", "2", ".", "1", "1">>
NM_1_12 == <<"N", "M", "_", "1", ".", "1", "2">>
NC_1_x == <<"N", "C", "_", "1", ".", "x">>
NC_1 == <<"N", "C", "_", "1">>

Exon3 == PosData(PyInt(3), PyInt(3), PyNone, PyNone)
Exon56 == PosData(PyInt(5), PyInt(6), PyNone, PyNone)
NoBoundary == PosData(PyNone, PyNone, PyNone, PyNone)

\* variant_exonic_positions, in insertion order: <<key, entry>> pairs
ExonPositions ==
    {<< <<NC_1_11, PosData(s, e, PyNone, PyNone)>> >> : s \in Boundaries, e \in Boundaries}
    \cup {<< <<NC_1_11, PosData(PyNone, PyNone, s, s)>> >> : s \in Boundaries}
    \cup {<< <<NC_1_11, PosData(PyInt(5), PyInt(7), PyInt(5), PyInt(5))>> >>,
          << <<NC_1_11, PosData(PyInt(5), PyInt(5), PyInt(0), PyInt(7))>> >>,
          << <<NC_1_11, PosData(PyNone, PyInt(5), PyInt(5), PyInt(7))>> >>,
          << <<NC_1_10, Exon3>>, <<NC_1_11, Exon56>> >>,
          << <<NC_1_11, Exon56>>, <<NC_1_10, Exon3>> >>,
          << <<NC_1_9, Exon3>>, <<NC_1_10, Exon56>> >>,
          << <<NC_1_10, Exon56>>, <<NC_1_9, Exon3>> >>,
          << <<NC_1_11, Exon3>>, <<NC_2_11, Exon56>> >>,
          << <<NC_1_10, Exon3>>, <<NC_1_11, NoBoundary>> >>,
          << <<NC_1_10, Exon3>>, <<NM_1_12, Exon56>> >>,
          << <<NC_1_10, Exon3>>, <<NC_1_x, Exon56>> >>,
          << <<NC_1, Exon56>>, <<NC_1_9, Exon3>> >>,
          << <<NM_1_12, Exon56>> >>,
          << <<NC_1, Exon56>> >>}

Failures == {[kind |-> "Timeout"], [kind |-> "RequestException"]}

ExonResponses ==
    Failures \cup {[kind |-> "Status"], [kind |-> "NoKey"]}
    \cup {[kind |-> "Json", positions |-> <<>>]}
    \cup {[kind |-> "Json", positions |-> p] : p \in ExonPositions}

Chr7 == Chars(<<"7">>)

GnomadRow(all, afr, chr, pos, ref, alt) ==
    [gnomad_all |-> all, gnomad_afr |-> afr, gnomad_amr |-> NaN, gnomad_asj |-> NaN,
     gnomad_eas |-> NaN, gnomad_fin |-> NaN, gnomad_nfe |-> NaN, gnomad_oth |-> NaN,
     gnomad_sas |-> NaN,
     grch38_chr |-> chr, grch38_pos |-> pos, grch38_ref |-> ref, grch38_alt |-> alt]

GnomadRows ==
    {GnomadRow(all, afr, Chr7, PyInt(100), Rep("A", 1), Rep("T", 1)) :
        all \in {NaN, Frac(0, 1), Frac(1, 4)}, afr \in {NaN, Frac(1, 10)}}
    \cup {GnomadRow(all, NaN, c[1], c[2], c[3], c[4]) :
            all \in {NaN},
            c \in {<<NaN, PyInt(100), Rep("A", 1), Rep("T", 1)>>,
                   <<Chr7, NaN, Rep("A", 1), Rep("T", 1)>>,
                   <<Chr7, PyInt(100), NaN, Rep("T", 1)>>,
                   <<Chr7, PyInt(100), Rep("A", 1), NaN>>,
                   <<Chr7, PyInt(100), Rep("A", 1200), Rep("T", 1)>>,
                   <<Chr7, PyInt(100), Rep("A", max_allele_length + 1), Rep("T", 1)>>,
                   <<Chr7, PyInt(100), Rep("A", 1), Rep("T", max_allele_length + 1)>>}}
    \cup {GnomadRow(NaN, NaN, Chr7, PyInt(100), r, a) :
            r \in {Rep("A", max_allele_length)}, a \in {Rep("T", 1), Rep("T", max_allele_length)}}

\* allele counts and allele numbers of a population entry
Counts == {PyNone} \cup {PyInt(i) : i \in 0..MaxAN}
Numbers == {PyNone, PyInt(0), PyInt(MaxAN)}

Pop(id, ac, an) == [id |-> id, ac |-> ac, an |-> an]

Populations ==
    {<<Pop("afr", ac, an)>> : ac \in Counts, an \in Numbers}
    \cup {<<>>,
          << [ac |-> PyInt(1), an |-> PyInt(MaxAN)] >>,
          << [id |-> "afr"] >>,
          << [id |-> "afr", an |-> PyInt(MaxAN)] >>,
          << Pop("afr", PyInt(1), PyInt(MaxAN)), [ac |-> PyInt(1), an |-> PyInt(MaxAN)] >>,
          << Pop("remaining", PyInt(1), PyInt(MaxAN)), Pop("oth", PyInt(MaxAN), PyInt(MaxAN)) >>,
          << Pop("oth", PyInt(MaxAN), PyInt(MaxAN)), Pop("remaining", PyInt(1), PyInt(MaxAN)) >>,
          << Pop("remaining", PyInt(1), PyInt(0)), Pop("oth", PyInt(MaxAN), PyInt(MaxAN)) >>,
          << Pop("remaining", PyNone, PyInt(MaxAN)), Pop("oth", PyInt(0), PyInt(MaxAN)) >>,
          << Pop("oth", PyInt(1), PyInt(MaxAN)) >>,
          << Pop("sas", PyInt(1), PyInt(MaxAN)), Pop("sas", PyInt(0), PyInt(0)) >>}

GnomadResponses ==
    Failures \cup {[kind |-> "Errors"], [kind |-> "NoVariant"], [kind |-> "NoGenome"]}
    \cup {[kind |-> "Genome", af |-> af, populations |-> ps] :
            af \in {Frac(1, 4), Frac(3, 4)}, ps \in Populations}
    \cup {[kind |-> "Genome", af |-> PyNone, populations |-> ps] :
            ps \in {<<>>, << Pop("afr", PyNone, PyNone) >>,
                    << Pop("afr", PyInt(1), PyInt(MaxAN)) >>}}

RsidRow(chr, pos, ref, alt, rsid) ==
    [grch38_chr |-> chr, grch38_pos |-> pos, grch38_ref |-> ref, grch38_alt |-> alt,
     rsid |-> rsid]

ChrX == Chars(<<"c", "h", "r", "X">>)

RsidRows ==
    {RsidRow(ChrX, PyInt(1000), Rep("A", 1), Rep("T", 1), r) : r \in TextValues("rs5")}
    \cup {RsidRow(c, PyInt(1000), Rep("A", 1), Rep("T", 1), r) :
            c \in {Chars(<<"X">>), Chars(<<"C", "H", "R", "1", "7">>), Chars(<<"C", "h", "r", "M", "T">>),
                   Chars(<<"c", "h", "r", "9", "9">>), Chars(<<"c", "h", "r", "U", "n">>), NaN},
            r \in {NaN, PyStr("rs5")}}
    \cup {RsidRow(ChrX, p, Rep("A", 1), Rep("T", 1), r) :
            p \in {NaN, PyStr("12q")}, r \in {NaN, PyStr("rs5")}}
    \cup {RsidRow(ChrX, PyInt(1000), c[1], c[2], r) :
            r \in {NaN, PyStr("rs5")},
            c \in {<<NaN, Rep("T", 1)>>, <<Rep("A", 1), NaN>>,
                   <<Rep("A", 1), Rep("A", 1)>>,
                   <<Rep("A", max_rsid_allele_length), Rep("T", max_rsid_allele_length)>>,
                   <<Rep("A", max_rsid_allele_length + 1), Rep("T", 1)>>,
                   <<Rep("A", 1), Rep("T", max_rsid_allele_length + 1)>>}}

RsidResponses ==
    Failures \cup {[kind |-> "Json", rsids |-> rs] : rs \in {<<>>, <<12>>, <<12, 7>>}}

Rows(t) == CASE t = "exons" -> ExonRows [] t = "gnomad" -> GnomadRows [] t = "rsid" -> RsidRows

Responses(t) ==
    CASE t = "exons" -> ExonResponses
      [] t = "gnomad" -> GnomadResponses
      [] t = "rsid" -> RsidResponses

\* the body of the tool's loop over the variants
loop_body(t, row, resp, patch_ok, m, overwrite_all, clear_not_found) ==
    CASE t = "exons" ->
            annotate_exons_introns(row, resp, patch_ok, m, overwrite_all, clear_not_found)
      [] t = "gnomad" ->
            annotate_gnomad_frequencies(row, resp, patch_ok, m, overwrite_all, clear_not_found)
      [] t = "rsid" ->
            annotate_rsids(row, resp, patch_ok, m, overwrite_all, clear_not_found)

---------------------------------------------------------------------------
(* The runs.                                                               *)

ZeroCounts == [updated |-> 0, skipped |-> 0, not_found |-> 0, cleared |-> 0]

NoLast == [row |-> <<>>, resp |-> <<>>, out |-> <<>>]
NoResp == [kind |-> "unused"]

\* no wrapped function is being called on its own
NoRetry == [pc |-> "idle"]

Init ==
    /\ tool \in Tools
    /\ entry \in {"cli", "api"}
    /\ args \in [overwrite_all : BOOLEAN, clear_not_found : BOOLEAN]
    /\ pc = "start"
    /\ params = [overwrite_all |-> FALSE, clear_not_found |-> FALSE]
    /\ n = 0
    /\ idx = 0
    /\ cnt = [m \in Modes |-> ZeroCounts]
    /\ calls = [login |-> 0, fetch |-> 0, query |-> 0]
    /\ patches = [m \in Modes |-> 0]
    /\ failed = 0
    /\ last = NoLast
    /\ retry = NoRetry

\* __main__ up to the try block: the configuration is loaded and, in the
\* exon and rsID tools, the flag combination is validated
Main ==
    /\ entry = "cli" /\ pc = "start"
    /\ \E config_ok \in BOOLEAN :
          pc' = IF ~config_ok THEN "fatal"
                ELSE IF tool \in {"exons", "rsid"}
                        /\ args.clear_not_found /\ ~args.overwrite_all THEN "fatal"
                ELSE "login"
    /\ UNCHANGED <<retry, tool, entry, args, params, n, idx, cnt, calls, patches, failed, last>>

\* login(lead_url, email, password): POST /auth/login
Login ==
    /\ pc = "login"
    /\ calls' = [calls EXCEPT !.login = @ + 1]
    /\ \E ok \in BOOLEAN : pc' = IF ok THEN "fetch" ELSE "fatal"
    /\ UNCHANGED <<retry, tool, entry, args, params, n, idx, cnt, patches, failed, last>>

\* the parameters __main__ passes to the annotation function
main_params(t, a) ==
    [overwrite_all |-> a.overwrite_all,
     clear_not_found |-> IF t = "gnomad" THEN FALSE ELSE a.clear_not_found]

\* get_variants(lead_url, session) and variants.head(args.limit), then the
\* call of the annotation function
GetVariants ==
    /\ pc = "fetch"
    /\ calls' = [calls EXCEPT !.fetch = @ + 1]
    /\ \E ok \in BOOLEAN :
          IF ok
          THEN /\ pc' = "loop"
               /\ n' \in 0..MaxVariants
               /\ params' = main_params(tool, args)
          ELSE pc' = "fatal" /\ UNCHANGED <<n, params>>
    /\ UNCHANGED <<retry, tool, entry, args, idx, cnt, patches, failed, last>>

\* the annotation function called directly with its keyword parameters
Call ==
    /\ entry = "api" /\ pc = "start"
    /\ pc' = "loop"
    /\ n' \in 0..MaxVariants
    /\ params' = args
    /\ UNCHANGED <<retry, tool, entry, args, idx, cnt, calls, patches, failed, last>>

\* AddCounts with `cleared_count += 1` also at the head of the clear block,
\* before the PATCH: a clear is counted twice
AddCounts_clear_twice(c, o) ==
    [updated |-> c.updated + o.upd, skipped |-> c.skipped + o.skp,
     not_found |-> c.not_found + o.nf, cleared |-> c.cleared + 2 * o.clr]

\* the four counters after an iteration with outcome o
AddCounts(c, o) ==
    [updated |-> c.updated + o.upd, skipped |-> c.skipped + o.skp,
     not_found |-> c.not_found + o.nf, cleared |-> c.cleared + o.clr]

\* whether the loop body issues its external query for this row (the
\* response is drawn only for a request that is made)
queries(t, row, p) ==
    loop_body(t, row, [kind |-> "Timeout"], TRUE, "live",
              p.overwrite_all, p.clear_not_found).query = 1

\* whether the live loop body sends a PATCH for this row and response
sends_patch(t, row, resp, p) ==
    loop_body(t, row, resp, TRUE, "live", p.overwrite_all, p.clear_not_found).patch # <<>>

\* one iteration of the loop over the variants, in the dry and in the live run
ProcessVariant ==
    /\ pc = "loop" /\ idx < n
    /\ \E r \in Rows(tool) :
        LET row == [id |-> idx + 1] @@ r IN
        \E resp \in IF queries(tool, row, params) THEN Responses(tool) ELSE {NoResp} :
        \E patch_ok \in IF sends_patch(tool, row, resp, params) THEN BOOLEAN ELSE {TRUE} :
          LET out == [m \in Modes |->
                         loop_body(tool, row, resp, patch_ok, m,
                                   params.overwrite_all, params.clear_not_found)]
          IN /\ idx' = idx + 1
             /\ cnt' = [m \in Modes |-> AddCounts(cnt[m], out[m])]
             /\ calls' = [calls EXCEPT !.query = @ + out["live"].query]
             /\ patches' = [m \in Modes |-> patches[m] + Len(out[m].patch)]
             /\ failed' = failed + Cardinality({i \in 1..Len(out["live"].patch) :
                                                  ~out["live"].patch[i].ok})
             /\ pc' = IF out["live"].crash # "" THEN "crashed" ELSE "next"
             /\ last' = [row |-> row, resp |-> resp, out |-> out]
    /\ UNCHANGED <<retry, tool, entry, args, params, n>>

\* the for statement takes the next row; the locals of the iteration that ended
\* (row, response, new values) are dead from here on
NextVariant ==
    /\ pc = "next"
    /\ pc' = "loop"
    /\ last' = NoLast
    /\ UNCHANGED <<retry, tool, entry, args, params, n, idx, cnt, calls, patches, failed>>

\* the end of the loop: the summary line
Summary ==
    /\ pc = "loop" /\ idx = n
    /\ pc' = "done"
    /\ UNCHANGED <<retry, tool, entry, args, params, n, idx, cnt, calls, patches, failed, last>>

Next == Main \/ Login \/ GetVariants \/ Call \/ ProcessVariant \/ NextVariant \/ Summary

Spec == Init /\ [][Next]_vars

---------------------------------------------------------------------------
(* A function wrapped by retry_with_backoff, called on its own.            *)

\* what one call of the wrapped function does: it returns a value or raises
Returns(value) == [raised |-> "", value |-> value]
Raises(exception) == [raised |-> exception, value |-> PyNone]

FuncOutcomes ==
    {Returns(PyInt(12)), Returns(PyNone), Raises("RequestException"), Raises("ValueError")}

\* the calls of a wrapped function: the decorator's parameters, the session
\* keyword (None when it is not passed by keyword) and what func does in each
\* of the attempts it may get
RetryCalls ==
    {[pc |-> "called", session |-> s, retries |-> r, backoff_factor |-> b, func |-> f] :
        s \in {PyNone, PyStr("session")},
        r \in 0..MaxRetries,
        b \in {Frac(3, 10), Frac(1, 2)},
        f \in UNION {[1..(k + 1) -> FuncOutcomes] : k \in 0..MaxRetries}}

RetryInit ==
    /\ tool = "rsid" /\ entry = "api"
    /\ args = [overwrite_all |-> FALSE, clear_not_found |-> FALSE]
    /\ params = args
    /\ pc = "start"
    /\ n = 0 /\ idx = 0
    /\ cnt = [m \in Modes |-> ZeroCounts]
    /\ calls = [login |-> 0, fetch |-> 0, query |-> 0]
    /\ patches = [m \in Modes |-> 0]
    /\ failed = 0
    /\ last = NoLast
    /\ retry \in {c \in RetryCalls : Len(c.func) = c.retries + 1}

\* the call of the wrapper runs to its end
RetryCall ==
    /\ retry.pc = "called"
    /\ retry' = [pc |-> "ended", session |-> retry.session, retries |-> retry.retries,
                 backoff_factor |-> retry.backoff_factor, func |-> retry.func,
                 result |-> retry_with_backoff(retry.session, retry.func, retry.retries,
                                               retry.backoff_factor)]
    /\ UNCHANGED <<tool, entry, args, pc, params, n, idx, cnt, calls, patches, failed, last>>

RetryNext == RetryCall

RetrySpec == RetryInit /\ [][RetryNext]_vars

---------------------------------------------------------------------------
(* Vocabulary of the properties.                                           *)

\* an iteration of the loop has just ended: `last` holds its row, the response
\* it received and the outcome in the dry and in the live run
Processed == pc \in {"next", "crashed"}

\* the annotation fields of a source
SourceFields(t) ==
    CASE t = "exons" -> {"exon", "intron"}
      [] t = "gnomad" -> gnomad_fields
      [] t = "rsid" -> {"rsid"}

\* a field holds a non-empty value: it is neither missing (None, NaN) nor ""
HasValue(v) == notna(v) /\ v # PyStr("")

\* the variant holds a non-empty value in some annotation field of the source
HoldsAnnotation(t, row) == \E f \in SourceFields(t) : HasValue(row[f])

\* the PATCH requests of a kind ("set" / "clear") an outcome sent
Sent(o, kind) == {i \in 1..Len(o.patch) : o.patch[i].kind = kind}

---------------------------------------------------------------------------
(* C1: when overwrite_all is false and the variant holds a non-empty value *)
(* in any annotation field of the tool's source, the variant is counted as *)
(* skipped and neither an external query nor a PATCH is issued for it.     *)
C1_ExistingAnnotationIsSkipped ==
    (Processed /\ ~params.overwrite_all /\ HoldsAnnotation(tool, last.row))
        => \A m \in Modes :
              /\ last.out[m].skp = 1
              /\ last.out[m].query = 0
              /\ last.out[m].patch = <<>>

(* C2: a clear (a clearing PATCH, or an increment of cleared) happens only *)
(* when overwrite_all and clear_not_found are both true and the variant    *)
(* holds a non-empty value for the source (None/NaN is not a value).       *)
C2_ClearOnlyForHeldValue ==
    Processed =>
        \A m \in Modes :
            (last.out[m].clr = 1 \/ Sent(last.out[m], "clear") # {})
                => /\ params.overwrite_all
                   /\ params.clear_not_found
                   /\ HoldsAnnotation(tool, last.row)

(* C3: with test_mode enabled no PATCH request is ever sent, whatever the  *)
(* variants, the flags and the external responses.                         *)
C3_DryRunSendsNoPatch ==
    /\ patches["dry"] = 0
    /\ Processed => last.out["dry"].patch = <<>>

\* a dry-run iteration that decided an update and one that decided a clear
\* (the live run sent the PATCH)
C3_Witness ==
    /\ Processed
    /\ last.out["dry"].upd + last.out["dry"].clr = 1
    /\ last.out["live"].patch # <<>>
    /\ cnt["dry"].updated > 0
    /\ cnt["dry"].cleared > 0

(* C4 as claimed: a dry run and a live run over the same variants, flags   *)
(* and external responses end with identical values of all four counters.  *)
C4_SameCounters == pc = "done" => cnt["dry"] = cnt["live"]

(* C4 as amended: the two runs always agree on skipped and not-found; each *)
(* PATCH that fails in the live run leaves the live run's updated or       *)
(* cleared counter one below the dry run's, so all four counters are       *)
(* identical at the end provided every PATCH of the live run succeeded.    *)
C4_SameCountersUnlessPatchFails ==
    /\ cnt["dry"].skipped = cnt["live"].skipped
    /\ cnt["dry"].not_found = cnt["live"].not_found
    /\ cnt["dry"].updated >= cnt["live"].updated
    /\ cnt["dry"].cleared >= cnt["live"].cleared
    /\ (cnt["dry"].updated - cnt["live"].updated)
          + (cnt["dry"].cleared - cnt["live"].cleared) = failed
    /\ (pc = "done" /\ failed = 0) => cnt["dry"] = cnt["live"]

\* a finished pair of runs in which the live run sent PATCHes, all successful,
\* for an update and for a clear
C4_Witness ==
    /\ pc = "done"
    /\ failed = 0
    /\ patches["live"] >= 2
    /\ cnt["live"].updated > 0
    /\ cnt["live"].cleared > 0

\* the response is a successful one whose normalised sub-fields are all empty:
\* exon source, neither an exon nor an intron value; gnomAD source, a genome
\* block with no overall frequency and no population MAF
FoundAllEmpty ==
    /\ Processed
    /\ last.resp.kind \in {"Json", "Genome"}
    /\ CASE tool = "exons" ->
              /\ last.resp.positions # <<>>
              /\ last.out["live"].norm.new_exon_value = PyNone
              /\ last.out["live"].norm.new_intron_value = PyNone
         [] tool = "gnomad" ->
              /\ last.resp.af = PyNone
              /\ \A i \in 1..Len(last.resp.populations) :
                    LET pop == last.resp.populations[i]
                    IN "id" \in DOMAIN pop
                       /\ population_maf(dict_get(pop, "ac"), dict_get(pop, "an")) = PyNone
         [] tool = "rsid" -> FALSE

(* C5: a successful response whose normalised sub-fields are all empty is  *)
(* handled like NotFound: counted as not-found, not as updated, no update  *)
(* PATCH, and the clear path is taken under the usual conditions.          *)
C5_EmptyFoundIsNotFound ==
    FoundAllEmpty =>
        \A m \in Modes :
            /\ last.out[m].crash = ""
            /\ last.out[m].nf = 1
            /\ last.out[m].upd = 0
            /\ Sent(last.out[m], "set") = {}

(* C6: no failure while processing a single variant aborts the batch:      *)
(* the loop is never left by an exception, and a run that reached the loop *)
(* ends with every variant attempted and the summary produced.             *)
C6_NoVariantAbortsBatch ==
    /\ pc # "crashed"
    /\ pc = "done" => idx = n

(* C7: the CLI invoked with --clear-not-found but without --overwrite-all  *)
(* ends in a fatal validation error before any network call.               *)
C7_ClearNotFoundRequiresOverwriteAll ==
    (entry = "cli" /\ args.clear_not_found /\ ~args.overwrite_all)
        => /\ pc \in {"start", "fatal"}
           /\ calls = [login |-> 0, fetch |-> 0, query |-> 0]
           /\ \A m \in Modes : patches[m] = 0

(* C8: an update PATCH contains only fields that resolved to a non-empty   *)
(* value: it never carries a null or empty value for any field.            *)
C8_UpdateCarriesOnlyValues ==
    Processed =>
        \A m \in Modes : \A i \in Sent(last.out[m], "set") :
            \A f \in DOMAIN last.out[m].patch[i].data :
                HasValue(last.out[m].patch[i].data[f])

\* the population entries the loop over `populations` went through: all of
\* them, or those before the first entry without an id
Visited(populations) ==
    {i \in 1..Len(populations) : \A j \in 1..i : "id" \in DOMAIN populations[j]}

Min(a, b) == IF a <= b THEN a ELSE b

\* maf is the MAF of an entry with allele count ac and allele number an
IsMafOf(maf, ac, an) ==
    IF ac = PyNone \/ an = PyNone THEN maf = PyNone
    ELSE IF an[2] = 0 THEN maf = PyNone
    ELSE /\ maf # PyNone
         /\ maf[1] = "float"
         /\ maf[3] = an[2]
         /\ 2 * ac[2] <= an[2] => maf[2] = ac[2]
         /\ 2 * ac[2] > an[2] => maf[2] = an[2] - ac[2]
         /\ (0 <= ac[2] /\ ac[2] <= an[2]) =>
               /\ maf[2] = Min(ac[2], an[2] - ac[2])
               /\ 0 <= maf[2] /\ 2 * maf[2] <= maf[3]
         /\ ac[2] = 0 => maf = Frac(0, an[2])

(* C9: the MAF of a population entry with allele count ac and allele       *)
(* number an is af = ac/an when af <= 0.5 and 1 - af otherwise (for        *)
(* 0 <= ac <= an: MAF * an = min(ac, an - ac), within [0, 0.5]); it is     *)
(* absent when an is 0 or ac or an is absent, and 0 (not absent) when      *)
(* ac = 0 and an > 0.                                                      *)
C9_PopulationMaf ==
    (Processed /\ tool = "gnomad" /\ last.resp.kind = "Genome") =>
        LET populations == last.resp.populations
            pop_mafs == last.out["live"].norm.pop_mafs
        IN \A i \in Visited(populations) :
              \* the dict keeps the entry seen last for an id
              (\A j \in Visited(populations) : j > i => populations[j].id # populations[i].id)
                 => /\ populations[i].id \in DOMAIN pop_mafs
                    /\ IsMafOf(pop_mafs[populations[i].id],
                               dict_get(populations[i], "ac"),
                               dict_get(populations[i], "an"))

\* entries with af > 0.5, with ac = 0 and with an = 0 were normalised
C9_Witness ==
    /\ Processed /\ tool = "gnomad" /\ last.resp.kind = "Genome"
    /\ last.resp.populations = << Pop("afr", PyInt(MaxAN - 1), PyInt(MaxAN)) >>
    /\ last.out["live"].norm.pop_mafs["afr"] = Frac(1, MaxAN)
    /\ last.out["live"].upd = 1

\* the decimal rendering of a one-digit number
Digit(v) == Digits[v[2] + 1]

\* the rendering of a (start, end) pair of boundaries below 10
Rendered(start, end) ==
    IF start \in {PyNone, PyInt(0), PyStr("")} \/ end \in {PyNone, PyInt(0), PyStr("")}
    THEN PyNone
    ELSE IF start = end THEN PyStr(Digit(start))
    ELSE PyStr(Digit(start) \o "-" \o Digit(end))

(* C10: exon and intron are rendered independently from their (start, end) *)
(* pair: "<n>" when start equals end, "<start>-<end>" when they differ,    *)
(* nothing when either boundary is missing or falsy (0 or empty).          *)
C10_ExonIntronRendering ==
    (Processed /\ tool = "exons" /\ last.resp.kind = "Json" /\ last.resp.positions # <<>>) =>
        LET norm == last.out["live"].norm
        IN /\ norm.new_exon_value = Rendered(norm.start_exon, norm.end_exon)
           /\ norm.new_intron_value = Rendered(norm.start_intron, norm.end_intron)
           /\ (norm.start_exon = PyInt(5) /\ norm.end_exon = PyInt(5))
                 => norm.new_exon_value = PyStr("5")
           /\ (norm.start_exon = PyInt(5) /\ norm.end_exon = PyInt(7))
                 => norm.new_exon_value = PyStr("5-7")
           /\ norm.start_exon \in {PyInt(0), PyNone} => norm.new_exon_value = PyNone

\* an exon range and a single intron were rendered from one response
C10_Witness ==
    /\ Processed /\ tool = "exons" /\ last.resp.kind = "Json" /\ last.resp.positions # <<>>
    /\ last.out["live"].norm.start_exon = PyInt(5)
    /\ last.out["live"].norm.end_exon = PyInt(7)
    /\ last.out["live"].norm.new_exon_value = PyStr("5-7")
    /\ last.out["live"].norm.new_intron_value = PyStr("5")
    /\ last.out["live"].upd = 1

\* key has the form NC_<number>.<version>; the result is the position of the dot
DotOfAccession(key) ==
    {d \in 5..(Len(key) - 1) :
        /\ SubSeq(key, 1, 3) = <<"N", "C", "_">>
        /\ key[d] = "."
        /\ \A i \in (4..(d - 1)) \cup ((d + 1)..Len(key)) : DigitValue(key[i]) >= 0}

RECURSIVE Decimal(_, _, _)
\* the number written by the digits ds[i..], after the value acc of ds[1..i-1]
Decimal(ds, i, acc) ==
    IF i > Len(ds) THEN acc ELSE Decimal(ds, i + 1, 10 * acc + DigitValue(ds[i]))

\* the <version> of a key of the form NC_<number>.<version>
VersionOf(key) ==
    LET d == CHOOSE d \in DotOfAccession(key) : TRUE
    IN Decimal(SubSeq(key, d + 1, Len(key)), 1, 0)

(* C11: among the keys of the form NC_<number>.<version> the entry used    *)
(* for the exon and intron boundaries is one with the numerically highest  *)
(* version; other keys are ignored (no boundaries when there is no such    *)
(* key).  NC_1.10 -> exon 3..3 with NC_1.11 -> exon 5..6 gives "5-6".      *)
C11_LatestVersionSelected ==
    (Processed /\ tool = "exons" /\ last.resp.kind = "Json" /\ last.resp.positions # <<>>) =>
        LET positions == last.resp.positions
            norm == last.out["live"].norm
            used == PosData(norm.start_exon, norm.end_exon,
                            norm.start_intron, norm.end_intron)
            valid == {i \in 1..Len(positions) : DotOfAccession(positions[i][1]) # {}}
        IN /\ valid = {} => used = NoBoundary
           /\ valid # {} =>
                 \E i \in valid :
                    /\ \A j \in valid : VersionOf(positions[j][1]) <= VersionOf(positions[i][1])
                    /\ norm.latest_version = VersionOf(positions[i][1])
                    /\ used = positions[i][2]
           /\ positions = << <<NC_1_10, Exon3>>, <<NC_1_11, Exon56>> >>
                 => norm.new_exon_value = PyStr("5-6")

\* the response NC_1.10 -> exon 3..3, NC_1.11 -> exon 5..6 was normalised to
\* exon "5-6" and the variant updated; so was one whose highest version comes first
C11_Witness ==
    /\ Processed /\ tool = "exons" /\ last.resp.kind = "Json"
    /\ last.resp.positions \in { << <<NC_1_10, Exon3>>, <<NC_1_11, Exon56>> >>,
                                 << <<NC_1_11, Exon56>>, <<NC_1_10, Exon3>> >> }
    /\ last.out["live"].norm.latest_version = 11
    /\ last.out["live"].norm.new_exon_value = PyStr("5-6")
    /\ last.out["live"].upd = 1

\* the reference or the alternate allele of the variant is longer than 1000
LongAllele(row) ==
    \E f \in {"grch38_ref", "grch38_alt"} : row[f][1] = "rep" /\ row[f][3] > 1000

(* C12: in the gnomAD tool a variant whose reference or alternate allele   *)
(* is longer than 1000 characters is counted as skipped (not not-found)    *)
(* and causes no gnomAD query and no PATCH, whatever the flags; a variant  *)
(* with an allele of exactly 1000 characters is still queried.             *)
C12_LongAlleleSkipped ==
    (Processed /\ tool = "gnomad") =>
        /\ LongAllele(last.row) =>
              \A m \in Modes :
                 /\ last.out[m].skp = 1
                 /\ last.out[m].nf = 0
                 /\ last.out[m].upd = 0
                 /\ last.out[m].query = 0
                 /\ last.out[m].patch = <<>>
        /\ (/\ last.row.grch38_ref = Rep("A", 1000)
            /\ last.row.grch38_alt \in {Rep("T", 1), Rep("T", 1000)}
            /\ notna(last.row.grch38_chr) /\ notna(last.row.grch38_pos)
            /\ (params.overwrite_all \/ isna(last.row.gnomad_all)))
              => \A m \in Modes : last.out[m].query = 1 /\ last.out[m].skp = 0

\* a variant with a reference allele of 1200 characters was skipped with
\* overwrite_all and clear_not_found set, after a variant had been queried
C12_Witness ==
    /\ Processed /\ tool = "gnomad"
    /\ params.overwrite_all /\ params.clear_not_found
    /\ last.row.grch38_ref = Rep("A", 1200)
    /\ last.out["live"].skp = 1
    /\ calls.query = 1

\* the chromosome labels of the GRCh38 table: 1-22, X, Y, MT and its alias M
ChromosomeLabels ==
    {ToString(i) : i \in 1..22} \cup {"X", "Y", "MT", "M"}

(* C13: for the rsID lookup the chromosome label is normalised by removing *)
(* a chr/Chr/CHR prefix and mapped through the fixed GRCh38 table (1-22,   *)
(* X, Y, MT, M: 25 accessions) to its accession, and the 1-based position  *)
(* p is sent as the SPDI position p - 1: "chrX" at 1000 queries            *)
(* NC_000023.11 at 999.                                                    *)
C13_SpdiOfChromosomeAndPosition ==
    /\ DOMAIN GRCH38_CHROMOSOMES = ChromosomeLabels
    /\ Cardinality({GRCH38_CHROMOSOMES[c] : c \in DOMAIN GRCH38_CHROMOSOMES}) = 25
    /\ (Processed /\ tool = "rsid" /\ last.out["live"].query = 1) =>
          LET row == last.row
              spdi == last.out["live"].norm.spdi
          IN /\ \E prefix \in {"", "chr", "Chr", "CHR"} : \E label \in ChromosomeLabels :
                   /\ join(row.grch38_chr[2]) = prefix \o label
                   /\ spdi[1] = GRCH38_CHROMOSOMES[label]
             /\ spdi[2] = row.grch38_pos[2] - 1
             /\ spdi[3] = row.grch38_ref /\ spdi[4] = row.grch38_alt
             /\ (row.grch38_chr = ChrX /\ row.grch38_pos = PyInt(1000))
                   => spdi[1] = "NC_000023.11" /\ spdi[2] = 999

\* "chrX" at position 1000 was looked up and an rsID found
C13_Witness ==
    /\ Processed /\ tool = "rsid"
    /\ last.row.grch38_chr = ChrX /\ last.row.grch38_pos = PyInt(1000)
    /\ last.out["live"].query = 1
    /\ last.out["live"].norm.spdi[1] = "NC_000023.11"
    /\ last.out["live"].norm.spdi[2] = 999
    /\ last.out["live"].norm.rsid # PyNone

\* the value of a required input field is absent
Absent(v) == v \in {PyNone, NaN}

\* the number of characters of an allele
AlleleLength(v) == v[3]

\* the variant meets a pre-query skip condition of the source
PreQuerySkip(t, row) ==
    CASE t = "exons" -> Absent(row.hgvs_transcript) \/ row.hgvs_transcript = PyStr("")
      [] t = "gnomad" ->
            \E f \in {"grch38_chr", "grch38_pos", "grch38_ref", "grch38_alt"} : Absent(row[f])
      [] t = "rsid" ->
            \/ \E f \in {"grch38_chr", "grch38_pos", "grch38_ref", "grch38_alt"} : Absent(row[f])
            \/ row.grch38_ref = row.grch38_alt
            \/ AlleleLength(row.grch38_ref) > 50
            \/ AlleleLength(row.grch38_alt) > 50

(* C14: a variant that meets a pre-query skip condition of its source      *)
(* (exon: no hgvs_transcript; gnomAD and rsID: a GRCh38 coordinate absent; *)
(* rsID only: ref equal to alt or an allele longer than 50 characters) is  *)
(* counted as skipped exactly once and causes no external query and no     *)
(* PATCH, whatever overwrite_all and clear_not_found are.                  *)
C14_PreQuerySkip ==
    (Processed /\ PreQuerySkip(tool, last.row)) =>
        \A m \in Modes :
            /\ last.out[m].skp = 1
            /\ last.out[m].upd = 0 /\ last.out[m].nf = 0 /\ last.out[m].clr = 0
            /\ last.out[m].query = 0
            /\ last.out[m].patch = <<>>

\* a variant of the rsID tool that holds an rsID, with an allele of 51
\* characters, was skipped although both flags are set
C14_Witness ==
    /\ Processed /\ tool = "rsid"
    /\ params.overwrite_all /\ params.clear_not_found
    /\ last.row.rsid = PyStr("rs5")
    /\ notna(last.row.grch38_ref) /\ notna(last.row.grch38_alt)
    /\ AlleleLength(last.row.grch38_alt) = 51
    /\ last.out["live"].skp = 1
    /\ cnt["live"].skipped = 1

\* the external query of the iteration ended in a transport error (timeout,
\* connection failure, HTTP error status raised as an exception)
TransportError == Processed /\ last.out["live"].query = 1 /\ last.resp \in Failures

(* C15: in every tool, a variant whose external query ends in a transport  *)
(* error is counted in the not-found counter of the run summary.           *)
C15_TransportErrorCountedNotFound ==
    TransportError =>
        \A m \in Modes : last.out[m].nf = 1 /\ cnt[m].not_found >= 1

\* the external query of the iteration was answered, and the answer says that
\* the service has nothing for the variant
NotFoundResponse ==
    /\ Processed /\ last.out["live"].query = 1
    /\ \/ last.resp.kind \in {"Status", "NoKey", "Errors", "NoVariant", "NoGenome"}
       \/ last.resp.kind = "Json" /\ tool = "exons" /\ last.resp.positions = <<>>
       \/ last.resp.kind = "Json" /\ tool = "rsid" /\ last.resp.rsids = <<>>

(* C16: in every tool, when overwrite_all and clear_not_found are both     *)
(* true and the variant holds a value for the source, a NotFound outcome   *)
(* and equally an Error outcome lead to a clear of all of the source's     *)
(* fields (a PATCH setting each of them to null in the live run), and the  *)
(* variant is counted as not-found and, the PATCH having succeeded, as     *)
(* cleared.                                                                *)
C16_NotFoundOrErrorClears ==
    (/\ NotFoundResponse \/ TransportError
     /\ params.overwrite_all /\ params.clear_not_found
     /\ HoldsAnnotation(tool, last.row)) =>
        /\ \A m \in Modes : last.out[m].nf = 1
        /\ last.out["dry"].clr = 1
        /\ Len(last.out["live"].patch) = 1
        /\ last.out["live"].patch[1].kind = "clear"
        /\ last.out["live"].patch[1].data = [f \in SourceFields(tool) |-> PyNone]
        /\ last.out["live"].patch[1].ok => last.out["live"].clr = 1

(* C17: after every per-variant attempt that issued an external query,     *)
(* whatever its outcome (found, not-found, error), the pacing sleep of the *)
(* tool is performed before the loop moves on to the next variant, so no   *)
(* two consecutive external queries occur without a pacing step between.   *)
C17_PacingAfterEveryQuery ==
    (pc = "next" /\ last.out["live"].query = 1) =>
        \A m \in Modes : last.out[m].sleep

(* C18: if authentication or the initial variant-list fetch fails, the run *)
(* ends with a fatal error before any variant is processed, with no        *)
(* annotation query and no PATCH ever issued; a run whose authentication   *)
(* and fetch succeeded ends with all variants processed.                   *)
C18_FatalSetupOrAllProcessed ==
    /\ pc = "fatal" =>
          /\ idx = 0 /\ calls.query = 0
          /\ \A m \in Modes : patches[m] = 0 /\ cnt[m] = ZeroCounts
    /\ (entry = "cli" /\ pc \notin {"start", "login", "fetch", "fatal"}) =>
          /\ calls.login = 1 /\ calls.fetch = 1
          /\ pc \in {"loop", "next", "done"}
          /\ pc = "done" => idx = n

\* a genome block whose population entries all carry an id was normalised
GenomeNormalised ==
    /\ Processed /\ tool = "gnomad" /\ last.resp.kind = "Genome"
    /\ \A i \in 1..Len(last.resp.populations) : "id" \in DOMAIN last.resp.populations[i]

\* the positions of the entries with the given id
EntriesOf(populations, id) == {i \in 1..Len(populations) : populations[i].id = id}

\* the last entry with the given id (the one the MAF map keeps)
EntryOf(populations, id) ==
    populations[CHOOSE i \in EntriesOf(populations, id) :
                   \A j \in EntriesOf(populations, id) : j <= i]

\* maf is the MAF of the population entry pop
IsMafOfEntry(maf, pop) == IsMafOf(maf, dict_get(pop, "ac"), dict_get(pop, "an"))

(* C19 as claimed: gnomad_oth is taken from the population entry with id   *)
(* 'remaining' whenever such an entry is present, even when its MAF is     *)
(* absent; the entry with id 'oth' is used only when no 'remaining' entry  *)
(* is present.                                                             *)
C19_OthFromRemainingEntry ==
    GenomeNormalised =>
        LET populations == last.resp.populations
            gnomad_oth == last.out["live"].norm.gnomad_freqs.gnomad_oth
        IN IF EntriesOf(populations, "remaining") # {}
           THEN IsMafOfEntry(gnomad_oth, EntryOf(populations, "remaining"))
           ELSE IF EntriesOf(populations, "oth") # {}
           THEN IsMafOfEntry(gnomad_oth, EntryOf(populations, "oth"))
           ELSE gnomad_oth = PyNone

\* the response has a 'remaining' entry whose MAF is present (0 included)
RemainingMafPresent(populations) ==
    /\ EntriesOf(populations, "remaining") # {}
    /\ ~IsMafOfEntry(PyNone, EntryOf(populations, "remaining"))

(* C19 as amended: gnomad_oth is the MAF of the 'remaining' entry whenever *)
(* that MAF is present (0 included); when there is no 'remaining' entry or *)
(* its MAF is absent (an is 0, or ac or an is missing), gnomad_oth is the  *)
(* MAF of the 'oth' entry, and absent when there is no 'oth' entry.        *)
C19_OthFromRemainingMaf ==
    GenomeNormalised =>
        LET populations == last.resp.populations
            gnomad_oth == last.out["live"].norm.gnomad_freqs.gnomad_oth
        IN IF RemainingMafPresent(populations)
           THEN IsMafOfEntry(gnomad_oth, EntryOf(populations, "remaining"))
           ELSE IF EntriesOf(populations, "oth") # {}
           THEN IsMafOfEntry(gnomad_oth, EntryOf(populations, "oth"))
           ELSE gnomad_oth = PyNone

\* a response with a 'remaining' entry (MAF 1/MaxAN) and an 'oth' entry
\* (MAF 0) was stored with gnomad_oth = 1/MaxAN
C19_Witness ==
    /\ GenomeNormalised
    /\ EntriesOf(last.resp.populations, "remaining") # {}
    /\ EntriesOf(last.resp.populations, "oth") # {}
    /\ last.out["live"].norm.gnomad_freqs.gnomad_oth = Frac(1, MaxAN)
    /\ Len(last.out["live"].patch) = 1
    /\ last.out["live"].patch[1].data.gnomad_oth = Frac(1, MaxAN)
    /\ last.out["live"].upd = 1

OwnKeys(t) ==
    CASE t = "exons" -> {"exon", "intron"}
      [] t = "gnomad" -> {"gnomad_all", "gnomad_afr", "gnomad_amr", "gnomad_asj", "gnomad_eas",
                          "gnomad_fin", "gnomad_nfe", "gnomad_oth", "gnomad_sas"}
      [] t = "rsid" -> {"rsid"}

(* C21: every PATCH a tool sends, update or clear, is addressed to the     *)
(* variant being processed and contains only keys of the tool's own source *)
(* (exon tool: exon, intron; gnomAD tool: the nine gnomad_* fields; rsID   *)
(* tool: rsid), so no other field of any variant is written.               *)
C21_PatchKeysOfOwnSource ==
    Processed =>
        \A m \in Modes : \A i \in 1..Len(last.out[m].patch) :
            /\ last.out[m].patch[i].id = last.row.id
            /\ DOMAIN last.out[m].patch[i].data \subseteq OwnKeys(tool)
            /\ DOMAIN last.out[m].patch[i].data # {}

\* the rsID tool sent an update PATCH for the second variant of a run whose
\* first variant was cleared
C21_Witness ==
    /\ Processed /\ tool = "rsid"
    /\ last.row.id = 2
    /\ Sent(last.out["live"], "set") = {1}
    /\ DOMAIN last.out["live"].patch[1].data = {"rsid"}
    /\ cnt["live"].cleared = 1

\* the chromosome label of the variant, with or without a chr/Chr/CHR prefix,
\* is one of the table
KnownChromosome(row) ==
    \E prefix \in {"", "chr", "Chr", "CHR"} : \E label \in ChromosomeLabels :
        join(row.grch38_chr[2]) = prefix \o label

\* the rsID tool gets as far as the lookup for this variant
ReachesLookup(row) ==
    /\ ~PreQuerySkip("rsid", row)
    /\ params.overwrite_all \/ ~HasValue(row.rsid)

(* C22: in the rsID tool a chromosome label that is not in the table after *)
(* prefix normalisation yields NotFound without any call to the            *)
(* identifier-resolution service: the variant is counted as not-found, and *)
(* cleared when both flags are set and it holds an rsID.                   *)
C22_UnknownChromosomeNotFound ==
    (/\ Processed /\ tool = "rsid"
     /\ ReachesLookup(last.row) /\ ~KnownChromosome(last.row)) =>
        /\ \A m \in Modes :
              /\ last.out[m].query = 0
              /\ last.out[m].nf = 1
              /\ last.out[m].upd = 0 /\ last.out[m].skp = 0
              /\ last.out[m].crash = ""
        /\ (params.overwrite_all /\ params.clear_not_found /\ HasValue(last.row.rsid)) =>
              /\ last.out["dry"].clr = 1
              /\ Sent(last.out["live"], "clear") = {1}

\* a variant on "chr99" holding an rsID was counted not-found and cleared,
\* and the run never called the identifier-resolution service
C22_Witness ==
    /\ Processed /\ tool = "rsid"
    /\ last.row.grch38_chr = Chars(<<"c", "h", "r", "9", "9">>)
    /\ last.row.rsid = PyStr("rs5")
    /\ last.out["live"].nf = 1
    /\ last.out["live"].clr = 1
    /\ calls.query = 0

\* the response of the exon tool was received and has entries
PositionsReceived ==
    Processed /\ tool = "exons" /\ last.resp.kind = "Json" /\ last.resp.positions # <<>>

\* the positions of the keys NC_<number>.<version> with the highest version
HighestVersion(positions) ==
    LET valid == {i \in 1..Len(positions) : DotOfAccession(positions[i][1]) # {}}
    IN {i \in valid :
          \A j \in valid : VersionOf(positions[j][1]) <= VersionOf(positions[i][1])}

\* the boundaries the exon tool went on with
UsedBoundaries ==
    LET norm == last.out["live"].norm
    IN PosData(norm.start_exon, norm.end_exon, norm.start_intron, norm.end_intron)

(* C23 as claimed: when several NC_ keys carry the same highest version,   *)
(* the key seen last among them supplies the exon/intron boundaries.       *)
C23_TieLastSeenWins ==
    (PositionsReceived /\ HighestVersion(last.resp.positions) # {}) =>
        LET top == HighestVersion(last.resp.positions)
            i == CHOOSE i \in top : \A j \in top : j <= i
        IN UsedBoundaries = last.resp.positions[i][2]

(* C23 as amended: when several NC_ keys carry the same highest version,   *)
(* the key seen first among them (in insertion order) supplies the         *)
(* exon/intron boundaries.                                                 *)
C23_TieFirstSeenWins ==
    (PositionsReceived /\ HighestVersion(last.resp.positions) # {}) =>
        LET top == HighestVersion(last.resp.positions)
            i == CHOOSE i \in top : \A j \in top : i <= j
        IN UsedBoundaries = last.resp.positions[i][2]

\* NC_1.11 -> exon 3..3 followed by NC_2.11 -> exon 5..6 was normalised to
\* exon "3" and the variant updated
C23_Witness ==
    /\ PositionsReceived
    /\ Cardinality(HighestVersion(last.resp.positions)) = 2
    /\ last.resp.positions[1][2] = Exon3
    /\ last.out["live"].norm.new_exon_value = PyStr("3")
    /\ last.out["live"].upd = 1

\* the entry yields neither an exon nor an intron value
YieldsNothing(pos_data) ==
    /\ Rendered(pos_data.start_exon, pos_data.end_exon) = PyNone
    /\ Rendered(pos_data.start_intron, pos_data.end_intron) = PyNone

(* C24: there is no fallback across versions: when the highest-version NC_ *)
(* entry yields neither an exon nor an intron value, the variant is        *)
(* treated as not-found even if a lower-version entry holds complete       *)
(* boundaries, and no value of a lower-version entry is written.           *)
C24_NoFallbackAcrossVersions ==
    (/\ PositionsReceived /\ HighestVersion(last.resp.positions) # {}
     /\ \A i \in HighestVersion(last.resp.positions) :
           YieldsNothing(last.resp.positions[i][2])) =>
        \A m \in Modes :
            /\ last.out[m].nf = 1
            /\ last.out[m].upd = 0
            /\ Sent(last.out[m], "set") = {}
            /\ last.out[m].norm.new_exon_value = PyNone
            /\ last.out[m].norm.new_intron_value = PyNone

\* NC_1.10 -> exon 3..3 with NC_1.11 -> no boundaries was counted not-found
C24_Witness ==
    /\ PositionsReceived
    /\ last.resp.positions = << <<NC_1_10, Exon3>>, <<NC_1_11, NoBoundary>> >>
    /\ last.out["live"].norm.latest_version = 11
    /\ last.out["live"].nf = 1
    /\ last.out["live"].patch = <<>>

\* the rsID lookup of the iteration was made and ended without an exception
\* leaving the loop
LookupMade ==
    /\ Processed /\ tool = "rsid" /\ pc = "next"
    /\ ReachesLookup(last.row)

\* the service, or the table, says that there is no rsID for the variant
ConfirmedAbsence ==
    \/ ~KnownChromosome(last.row)
    \/ last.resp.kind = "Json" /\ last.resp.rsids = <<>>

(* C25: in the rsID tool only a transport failure of the lookup is         *)
(* retried: a failed lookup call is re-attempted (at most retries times,   *)
(* with the waits 0.5, 1, 2, ... between the attempts) before the          *)
(* variant's outcome is settled, a confirmed absence is returned after a   *)
(* single attempt, and the caller can tell the two apart: a failed lookup  *)
(* does not reach it as the None of a confirmed absence.                   *)
C25_OnlyTransportFailureRetried ==
    LookupMade =>
        LET norm == last.out["live"].norm
        IN /\ ConfirmedAbsence => norm.invocations = 1 /\ norm.waits = <<>>
           /\ (KnownChromosome(last.row) /\ last.resp \in Failures) =>
                 /\ norm.invocations \in 2..(get_rsid_retries + 1)
                 /\ Len(norm.waits) = norm.invocations - 1
                 /\ \A k \in 1..Len(norm.waits) : norm.waits[k] = Frac(2^(k - 1), 2)
                 /\ ~(norm.rsid = PyNone /\ last.out["live"].nf = 1)

\* the attempts in which func does not raise RequestException: the wrapper
\* ends in the first of them
Conclusive(func) == {k \in 1..Len(func) : func[k].raised # "RequestException"}

(* C26: a function wrapped by retry_with_backoff(retries = r,              *)
(* backoff_factor = b) is invoked at most r + 1 times; an attempt that     *)
(* succeeds returns its result at once; after an attempt k (k = 0..r-1)    *)
(* that fails with a request exception the wrapper waits b * 2^k and       *)
(* retries; when attempt r fails the exception propagates, so the wrapper  *)
(* always ends.  A call without the keyword 'session' fails with           *)
(* ValueError before any attempt.                                          *)
C26_RetryWithBackoff ==
    retry.pc = "ended" =>
        LET r == retry.retries
            b == retry.backoff_factor
            func == retry.func
            result == retry.result
        IN /\ result.invocations <= r + 1
           /\ retry.session = PyNone =>
                 /\ result.invocations = 0
                 /\ result.waits = <<>>
                 /\ result.outcome.raised = "ValueError"
           /\ retry.session # PyNone =>
                 /\ Len(result.waits) = result.invocations - 1
                 /\ \A k \in 1..Len(result.waits) :
                       result.waits[k] = Frac(b[2] * 2^(k - 1), b[3])
                 /\ Conclusive(func) # {} =>
                       /\ result.invocations \in Conclusive(func)
                       /\ \A k \in Conclusive(func) : result.invocations <= k
                       /\ result.outcome = func[result.invocations]
                 /\ Conclusive(func) = {} =>
                       /\ result.invocations = r + 1
                       /\ result.outcome.raised = "RequestException"

\* a function wrapped with retries = 2 and backoff_factor = 0.5 failed three
\* times: the waits were 0.5 and 1, and the third exception propagated
C26_Witness ==
    /\ retry.pc = "ended"
    /\ retry.retries = 2 /\ retry.backoff_factor = Frac(1, 2)
    /\ retry.result.invocations = 3
    /\ retry.result.waits = <<Frac(1, 2), Frac(2, 2)>>
    /\ retry.result.outcome.raised = "RequestException"

\* the CLI was started with --overwrite-all --clear-not-found and has called
\* the annotation routine
CliRunWithBothFlags ==
    /\ entry = "cli" /\ args.overwrite_all /\ args.clear_not_found
    /\ pc \in {"loop", "next", "crashed", "done"}

(* C27: in each of the three tools, running the CLI with --overwrite-all   *)
(* --clear-not-found makes the annotation routine run with clear_not_found *)
(* true, so that a not-found outcome for a variant holding a value for the *)
(* source produces a clear, in the gnomAD tool as in the other two.        *)
C27_CliPassesClearNotFound ==
    CliRunWithBothFlags =>
        /\ params.overwrite_all /\ params.clear_not_found
        /\ (/\ NotFoundResponse
            /\ IF tool = "gnomad" THEN HasValue(last.row.gnomad_all)
                                  ELSE HoldsAnnotation(tool, last.row)) =>
              /\ last.out["dry"].clr = 1
              /\ Sent(last.out["live"], "clear") = {1}

(* C28: a variant that gnomAD reports with exome data but no genome data   *)
(* is captured by the gnomAD annotation: it is counted as updated, with a  *)
(* MAF stored for it, not counted as not-found.                            *)
C28_ExomeOnlyCaptured ==
    (/\ Processed /\ tool = "gnomad" /\ last.out["live"].query = 1
     /\ last.resp.kind = "NoGenome") =>
        /\ \A m \in Modes : last.out[m].upd = 1 /\ last.out[m].nf = 0
        /\ Sent(last.out["live"], "set") = {1}

\* the variants counted in one of updated, skipped, not-found
Counted(c) == c.updated + c.skipped + c.not_found

\* the counters c of a run that has processed idx variants
CountersInRange(c) ==
    /\ c.updated >= 0 /\ c.skipped >= 0 /\ c.not_found >= 0 /\ c.cleared >= 0
    /\ Counted(c) <= idx
    /\ c.cleared <= c.not_found

(* C29: in every reachable state of a run of any of the three tools, each  *)
(* variant processed so far has incremented at most one of updated,        *)
(* skipped and not-found; counters never decrease; updated + skipped +     *)
(* not-found <= number of variants processed so far; cleared <= not-found, *)
(* cleared being incremented only for a variant counted as not-found.      *)
C29_CounterInvariants ==
    /\ [](\A m \in Modes :
            /\ CountersInRange(cnt[m])
            /\ Processed =>
                  /\ last.out[m].upd + last.out[m].skp + last.out[m].nf <= 1
                  /\ last.out[m].clr <= last.out[m].nf)
    /\ [][\A m \in Modes :
            /\ cnt'[m].updated >= cnt[m].updated
            /\ cnt'[m].skipped >= cnt[m].skipped
            /\ cnt'[m].not_found >= cnt[m].not_found
            /\ cnt'[m].cleared >= cnt[m].cleared
            /\ Counted(cnt'[m]) - Counted(cnt[m]) <= idx' - idx
            /\ cnt'[m].cleared - cnt[m].cleared <= cnt'[m].not_found - cnt[m].not_found]_vars

\* a finished live run of two variants: one updated, one counted not-found
\* and cleared
C29_Witness ==
    /\ pc = "done" /\ idx = 2
    /\ cnt["live"].updated = 1
    /\ cnt["live"].not_found = 1
    /\ cnt["live"].cleared = 1

\* the variant record after the database has applied the body of a PATCH:
\* the fields of the body are replaced, the others kept
ApplyPatch(row, data) ==
    [f \in DOMAIN row |-> IF f \in DOMAIN data THEN data[f] ELSE row[f]]

\* a fill-in live run has just updated the variant: the PATCH succeeded
FilledIn ==
    /\ Processed /\ ~params.overwrite_all
    /\ last.out["live"].upd = 1
    /\ Sent(last.out["live"], "set") = {1}
    /\ last.out["live"].patch[1].ok

(* C30: fill-in runs are idempotent: after a live run with overwrite_all   *)
(* false has updated a variant (the PATCH succeeded), a second run of the  *)
(* same tool with overwrite_all false over the resulting record skips the  *)
(* variant, with no external query and no PATCH, whatever clear_not_found  *)
(* and the mode of the second run are, so the record stays as it is.       *)
C30_FillInIdempotent ==
    FilledIn =>
        LET stored == ApplyPatch(last.row, last.out["live"].patch[1].data)
        IN \A m \in Modes : \A clear_not_found \in BOOLEAN :
              LET second == loop_body(tool, stored, [kind |-> "Timeout"], TRUE, m,
                                      FALSE, clear_not_found)
              IN /\ second.skp = 1
                 /\ second.query = 0
                 /\ second.patch = <<>>
                 /\ second.upd = 0 /\ second.nf = 0 /\ second.clr = 0

\* a fill-in run of the exon tool stored an intron value only, for a variant
\* that had neither an exon nor an intron
C30_Witness ==
    /\ FilledIn /\ tool = "exons"
    /\ ~HoldsAnnotation(tool, last.row)
    /\ DOMAIN last.out["live"].patch[1].data = {"intron"}
    /\ ApplyPatch(last.row, last.out["live"].patch[1].data).intron = PyStr("5")
    /\ cnt["live"].updated = 1

====
